---- MODULE Spec2Model ----
(***************************************************************************)
(* A model of the falling-block prototype of src/src/main.rs.              *)
(*                                                                         *)
(* The world holds the entities tagged ActiveBlock and the entities tagged *)
(* NormalBlock, each with a Position.  Three systems act on them:          *)
(* falling_movement and place_active_blocks (one system set, the fall      *)
(* timestep) and control_movement (another set, the control timestep).     *)
(* All three are registered in the same stage with no ordering between     *)
(* them, so the stage runs them in an order that is fixed for one run of   *)
(* the program but is not determined by the source; the entity commands a  *)
(* system issues (spawns) are applied when the pass over the stage ends.   *)
(* After the update stage position_translation gives every entity its      *)
(* place in the window.                                                    *)
(***************************************************************************)
EXTENDS Integers, Sequences, FiniteSets, TLC

TOTAL_HEIGHT == 16
TOTAL_WIDTH == 8

WINDOW_REAL_HEIGHT == 500

\* Play is explored until this many cells are frozen.
MaxFrozen == 3

\* Play with no key held is explored until this many cells are frozen.
MaxFrozenNoKeys == 16

\* Play under fair scheduling is explored until this many cells are frozen
\* after its initial state.
MaxFrozenFair == 1

\* The window is up to this many times twice the grid extent, on each axis.
MaxWindowFactor == 2

\* The keys control_movement reads.
KeyCode == {"Left", "Right", "Down"}

\* The systems of the update stage, in the order main registers them.
Systems == <<"falling_movement", "place_active_blocks", "control_movement">>

\* The two system sets of main, each behind its own FixedTimestep.
FallSet == {"falling_movement", "place_active_blocks"}
ControlSet == {"control_movement"}

VARIABLES
    activeBlocks,   \* Positions of the entities tagged ActiveBlock
    normalBlocks,   \* Positions of the entities tagged NormalBlock, oldest first
    commands,       \* spawn commands issued in this pass, not yet applied
    order,          \* the order in which the stage runs its systems
    pass,           \* the systems that run in the current pass, in order
    pc,             \* how many systems of the pass have run
    window,         \* width and height of the primary window
    transforms,     \* Transform.translation of the entities, active ones first
    fall_ticks      \* fall ticks begun since the last freeze (history)

vars == <<activeBlocks, normalBlocks, commands, order, pass, pc,
          window, transforms, fall_ticks>>

\* What the systems of the update stage leave alone.
aux == <<window, transforms, fall_ticks>>

Position(x, y) == [x |-> x, y |-> y]

\* The Position spawn_active_block gives the active block.
SpawnPosition == Position(5, TOTAL_HEIGHT - 1)

----------------------------------------------------------------------------
(* The command buffer.                                                     *)

\* The Positions that the commands tagged `tag` spawn, in issue order.
Spawned(cmds, tag) ==
    LET f[i \in 0..Len(cmds)] ==
            IF i = 0 THEN <<>>
            ELSE IF cmds[i].tag = tag THEN Append(f[i - 1], cmds[i].pos)
                 ELSE f[i - 1]
    IN  f[Len(cmds)]

----------------------------------------------------------------------------
(* The systems, as functions of what they read.                            *)

\* spawn_active_block: the command that spawns the active block.
spawn_active_block == [tag |-> "ActiveBlock", pos |-> SpawnPosition]

\* falling_movement as it would be if it stopped on top of a normal block.
falling_movement_blocked(position) ==
    IF /\ position.y > 0
       /\ \A i \in DOMAIN normalBlocks :
             normalBlocks[i] # Position(position.x, position.y - 1)
        THEN [position EXCEPT !.y = @ - 1]
        ELSE position

\* falling_movement as it would be with the floor test off by one.
falling_movement_stuck(position) ==
    IF position.y > 1 THEN [position EXCEPT !.y = @ - 1] ELSE position

\* falling_movement, for one active block.
falling_movement(position) ==
    IF position.y > 0 THEN [position EXCEPT !.y = @ - 1] ELSE position

\* control_movement as it would be without the bounds checks.
control_movement_unclamped(keyboard_input, position) ==
    IF "Left" \in keyboard_input
        THEN [position EXCEPT !.x = @ - 1]
    ELSE IF "Right" \in keyboard_input
        THEN [position EXCEPT !.x = @ + 1]
    ELSE IF "Down" \in keyboard_input
        THEN [position EXCEPT !.y = @ - 1]
    ELSE position

\* control_movement as it would be with three separate ifs instead of one
\* if / else if chain.
control_movement_independent(keyboard_input, position) ==
    LET afterLeft ==
            IF "Left" \in keyboard_input /\ position.x > 0
                THEN [position EXCEPT !.x = @ - 1] ELSE position
        afterRight ==
            IF "Right" \in keyboard_input /\ afterLeft.x < TOTAL_WIDTH - 1
                THEN [afterLeft EXCEPT !.x = @ + 1] ELSE afterLeft
    IN  IF "Down" \in keyboard_input /\ afterRight.y > 0
            THEN [afterRight EXCEPT !.y = @ - 1] ELSE afterRight

\* control_movement as it would be with the right bound off by one.
control_movement_right_off_by_one(keyboard_input, position) ==
    IF "Left" \in keyboard_input /\ position.x > 0
        THEN [position EXCEPT !.x = @ - 1]
    ELSE IF "Right" \in keyboard_input /\ position.x < TOTAL_WIDTH
        THEN [position EXCEPT !.x = @ + 1]
    ELSE IF "Down" \in keyboard_input /\ position.y > 0
        THEN [position EXCEPT !.y = @ - 1]
    ELSE position

\* control_movement, for one active block, with the set of pressed keys.
control_movement(keyboard_input, position) ==
    IF "Left" \in keyboard_input /\ position.x > 0
        THEN [position EXCEPT !.x = @ - 1]
    ELSE IF "Right" \in keyboard_input /\ position.x < TOTAL_WIDTH - 1
        THEN [position EXCEPT !.x = @ + 1]
    ELSE IF "Down" \in keyboard_input /\ position.y > 0
        THEN [position EXCEPT !.y = @ - 1]
    ELSE position

\* _place_normal_block: the command that spawns a normal block at (x, y).
place_normal_block(x, y) == [tag |-> "NormalBlock", pos |-> Position(x, y)]

\* The first loop of place_active_blocks: (act_x, act_y) start at (0, 0)
\* and are overwritten by every active block the query yields.
ReadActive(actives) ==
    IF actives = <<>> THEN Position(0, 0) ELSE actives[Len(actives)]

\* The scan as it would be with the break after the if instead of inside
\* it: only the first normal block the query yields is compared.
ScanFirstOnly(normals, i, act) ==
    IF i > Len(normals) THEN <<>>
    ELSE IF act.x = normals[i].x /\ act.y = normals[i].y + 1
        THEN <<place_normal_block(act.x, act.y)>>
    ELSE <<>>

\* The scan as it would be without the break: every match places a block.
RECURSIVE ScanNoBreak(_, _, _)
ScanNoBreak(normals, i, act) ==
    IF i > Len(normals) THEN <<>>
    ELSE IF act.x = normals[i].x /\ act.y = normals[i].y + 1
        THEN <<place_normal_block(act.x, act.y)>> \o ScanNoBreak(normals, i + 1, act)
    ELSE ScanNoBreak(normals, i + 1, act)

\* The scan as it would be if it compared the rows only.
RECURSIVE ScanIgnoresColumn(_, _, _)
ScanIgnoresColumn(normals, i, act) ==
    IF i > Len(normals) THEN <<>>
    ELSE IF act.y = normals[i].y + 1
        THEN <<place_normal_block(act.x, act.y)>>
    ELSE ScanIgnoresColumn(normals, i + 1, act)

\* The scan over the normal blocks from the i-th the query yields: the
\* commands it issues.  The first match places the block and breaks.
RECURSIVE ScanNormalBlocks(_, _, _)
ScanNormalBlocks(normals, i, act) ==
    IF i > Len(normals) THEN <<>>
    ELSE IF act.x = normals[i].x /\ act.y = normals[i].y + 1
        THEN <<place_normal_block(act.x, act.y)>>
    ELSE ScanNormalBlocks(normals, i + 1, act)

\* place_active_blocks as it would be without the floor test.
PlaceCommandsNoFloor(act, normals) == ScanNormalBlocks(normals, 1, act)

\* place_active_blocks as it would be if a placement spawned a fresh active
\* block besides resetting the old one.
PlaceCommandsRespawn(act, normals) ==
    IF act.y = 0
        THEN <<place_normal_block(act.x, act.y), spawn_active_block>>
        ELSE LET issued == ScanNormalBlocks(normals, 1, act)
             IN  IF issued = <<>> THEN <<>> ELSE issued \o <<spawn_active_block>>

\* place_active_blocks as it would be with the floor test off by one.
PlaceCommandsFloorAtOne(act, normals) ==
    IF act.y <= 1
        THEN <<place_normal_block(act.x, act.y)>>
        ELSE ScanNormalBlocks(normals, 1, act)

\* The commands place_active_blocks issues for the active position `act`
\* and the normal blocks in the order the query yields them.
PlaceCommands(act, normals) ==
    IF act.y = 0
        THEN <<place_normal_block(act.x, act.y)>>
        ELSE ScanNormalBlocks(normals, 1, act)

\* The last loop of place_active_blocks, for one active block.
ResetIfPlaced(did_place, position) ==
    IF did_place THEN [position EXCEPT !.y = TOTAL_HEIGHT - 1] ELSE position

----------------------------------------------------------------------------
(* The render transform.  An f32 is held as a whole number of              *)
(* 1/PixelScale: for the grid extents of the program and windows that are  *)
(* whole multiples of twice the grid extent every value convert computes   *)
(* is such a number, so the f32 arithmetic is exact and the divisions      *)
(* below leave no remainder.                                               *)

PixelScale == TOTAL_WIDTH * TOTAL_HEIGHT

\* `n as f32`.
F32(n) == n * PixelScale

\* a / b and a * b on f32.
FDiv(a, b) == (a * PixelScale) \div b
FMul(a, b) == (a * b) \div PixelScale

\* convert as it would be without the half tile that centres the cell.
convert_corner(pos, bound_window, bound_game) ==
    FMul(FDiv(pos, bound_game), bound_window) - FDiv(bound_window, F32(2))

\* The helper convert of position_translation.
convert(pos, bound_window, bound_game) ==
    LET tile_size == FDiv(bound_window, bound_game)
    IN  FMul(FDiv(pos, bound_game), bound_window)
            - FDiv(bound_window, F32(2)) + FDiv(tile_size, F32(2))

\* The translation position_translation gives an entity at `pos`.
Translation(pos) ==
    [x |-> convert(F32(pos.x), window.width, F32(TOTAL_WIDTH)),
     y |-> convert(F32(pos.y), window.height, F32(TOTAL_HEIGHT)),
     z |-> 0]

\* The window main asks for.
WindowDescriptor ==
    [width |-> FMul(F32(WINDOW_REAL_HEIGHT), FDiv(F32(TOTAL_WIDTH), F32(TOTAL_HEIGHT))),
     height |-> F32(WINDOW_REAL_HEIGHT)]

\* The window sizes the transform is explored on.
WindowSizes ==
    [width : {F32(2 * TOTAL_WIDTH * k) : k \in 1..MaxWindowFactor},
     height : {F32(2 * TOTAL_HEIGHT * k) : k \in 1..MaxWindowFactor}]

----------------------------------------------------------------------------
(* The schedule.                                                           *)

\* The orders the stage may give its three systems.
SystemOrders ==
    {<<Systems[p[1]], Systems[p[2]], Systems[p[3]]>> : p \in Permutations(1..3)}

\* The system that runs next in the current pass, "" when none is left.
Current == IF pc < Len(pass) THEN pass[pc + 1] ELSE ""

\* The systems that have run in the current pass.
HasRun == {pass[k] : k \in 1..pc}

Init ==
    /\ activeBlocks = <<>>
    /\ normalBlocks = <<>>
    /\ commands = <<>>
    /\ order \in SystemOrders
    /\ pass = <<"spawn_active_block">>
    /\ pc = 0
    /\ window = WindowDescriptor
    /\ transforms = <<>>
    /\ fall_ticks = 0

\* The startup stage "game_setup".
SpawnActiveBlock ==
    /\ Current = "spawn_active_block"
    /\ commands' = Append(commands, spawn_active_block)
    /\ pc' = pc + 1
    /\ UNCHANGED <<activeBlocks, normalBlocks, order, pass>>

\* A pass over the update stage begins: the run criteria of the two system
\* sets say which of them run, and the systems run in the stage's order.
BeginPassUpTo(bound) ==
    /\ pass = <<>>
    /\ Len(normalBlocks) < bound
    /\ \E sets \in (SUBSET {FallSet, ControlSet}) \ {{}} :
          pass' = SelectSeq(order, LAMBDA s : s \in UNION sets)
    /\ pc' = 0
    /\ UNCHANGED <<activeBlocks, normalBlocks, commands, order>>

BeginPass == BeginPassUpTo(MaxFrozen)

FallingMovement ==
    /\ Current = "falling_movement"
    /\ activeBlocks' =
          [i \in DOMAIN activeBlocks |-> falling_movement(activeBlocks[i])]
    /\ pc' = pc + 1
    /\ UNCHANGED <<normalBlocks, commands, order, pass>>

ControlMovement(keyboard_input) ==
    /\ Current = "control_movement"
    /\ activeBlocks' =
          [i \in DOMAIN activeBlocks |->
              control_movement(keyboard_input, activeBlocks[i])]
    /\ pc' = pc + 1
    /\ UNCHANGED <<normalBlocks, commands, order, pass>>

\* The orders in which a query may yield n entities.  The order is no part
\* of the query's contract: oldest entity first, or newest first.
QueryOrders(n) ==
    {[i \in 1..n |-> IF forward THEN i ELSE n + 1 - i] : forward \in BOOLEAN}

\* place_active_blocks; the query yields the normal blocks in some order.
PlaceActiveBlocks ==
    /\ Current = "place_active_blocks"
    /\ \E perm \in QueryOrders(Len(normalBlocks)) :
          LET yielded == [i \in DOMAIN normalBlocks |-> normalBlocks[perm[i]]]
              issued == PlaceCommands(ReadActive(activeBlocks), yielded)
              did_place == issued # <<>>
          IN  /\ commands' = commands \o issued
              /\ activeBlocks' =
                    [i \in DOMAIN activeBlocks |->
                        ResetIfPlaced(did_place, activeBlocks[i])]
    /\ pc' = pc + 1
    /\ UNCHANGED <<normalBlocks, order, pass>>

\* The pass ends: the commands its systems issued are applied to the world.
ApplyBuffers ==
    /\ pass # <<>>
    /\ pc = Len(pass)
    /\ activeBlocks' = activeBlocks \o Spawned(commands, "ActiveBlock")
    /\ normalBlocks' = normalBlocks \o Spawned(commands, "NormalBlock")
    /\ commands' = <<>>
    /\ pass' = <<>>
    /\ pc' = 0
    /\ UNCHANGED order

Next ==
    \/ SpawnActiveBlock /\ UNCHANGED aux
    \/ BeginPass /\ UNCHANGED aux
    \/ FallingMovement /\ UNCHANGED aux
    \/ \E keyboard_input \in SUBSET KeyCode :
          ControlMovement(keyboard_input) /\ UNCHANGED aux
    \/ PlaceActiveBlocks /\ UNCHANGED aux
    \/ ApplyBuffers /\ UNCHANGED aux

Spec == Init /\ [][Next]_vars

----------------------------------------------------------------------------
(* Play with no key ever held.                                             *)

NoKeyNext ==
    \/ SpawnActiveBlock /\ UNCHANGED aux
    \/ BeginPassUpTo(MaxFrozenNoKeys) /\ UNCHANGED aux
    \/ FallingMovement /\ UNCHANGED aux
    \/ ControlMovement({}) /\ UNCHANGED aux
    \/ PlaceActiveBlocks /\ UNCHANGED aux
    \/ ApplyBuffers /\ UNCHANGED aux

NoKeySpec == Init /\ [][NoKeyNext]_vars

----------------------------------------------------------------------------
(* Play under fair scheduling, with the fall ticks counted.  It starts at  *)
(* startup, or where play with no key held stands after TOTAL_HEIGHT - 1   *)
(* placements: the spawn column is frozen up to the row below the top row. *)

FilledColumn == [i \in 1..(TOTAL_HEIGHT - 1) |-> Position(SpawnPosition.x, i - 1)]

\* falling_movement comes before place_active_blocks in order o.
FallsFirst(o) ==
    \E i, j \in DOMAIN o :
        i < j /\ o[i] = "falling_movement" /\ o[j] = "place_active_blocks"

FilledColumnInit ==
    /\ order \in SystemOrders
    /\ normalBlocks = FilledColumn
    /\ activeBlocks =
          <<IF FallsFirst(order) THEN SpawnPosition
            ELSE falling_movement(SpawnPosition)>>
    /\ commands = <<>>
    /\ pass = <<>>
    /\ pc = 0
    /\ window = WindowDescriptor
    /\ transforms = <<>>
    /\ fall_ticks = 0

FairInit == Init \/ FilledColumnInit

\* The cells frozen since the initial state.
FrozenSinceInit ==
    IF Len(normalBlocks) >= TOTAL_HEIGHT - 1
        THEN Len(normalBlocks) - (TOTAL_HEIGHT - 1)
        ELSE Len(normalBlocks)

\* A pass begins; a pass that runs the fall set is one more fall tick.
FairBeginPass ==
    /\ BeginPassUpTo(Len(normalBlocks) - FrozenSinceInit + MaxFrozenFair)
    /\ fall_ticks' =
          IF \E k \in DOMAIN pass' : pass'[k] = "falling_movement"
              THEN IF fall_ticks <= TOTAL_HEIGHT THEN fall_ticks + 1 ELSE fall_ticks
              ELSE fall_ticks
    /\ UNCHANGED <<window, transforms>>

\* A pass that runs the fall set begins.
BeginFallTick ==
    FairBeginPass /\ \E k \in DOMAIN pass' : pass'[k] = "falling_movement"

\* The systems of a pass run and its commands are applied.
FairStep ==
    \/ SpawnActiveBlock /\ UNCHANGED aux
    \/ FallingMovement /\ UNCHANGED aux
    \/ \E keyboard_input \in SUBSET KeyCode :
          ControlMovement(keyboard_input) /\ UNCHANGED aux
    \/ /\ PlaceActiveBlocks
       /\ fall_ticks' = IF commands' # commands THEN 0 ELSE fall_ticks
       /\ UNCHANGED <<window, transforms>>
    \/ ApplyBuffers /\ UNCHANGED aux

FairNext == FairBeginPass \/ FairStep

\* A pass that has begun runs to its end, and fall ticks keep coming
\* however many control ticks run in between.
FairSpec ==
    /\ FairInit
    /\ [][FairNext]_vars
    /\ WF_vars(FairStep)
    /\ SF_vars(BeginFallTick)

----------------------------------------------------------------------------
(* The render transform on its own: any window size, an active block       *)
(* anywhere in the grid.                                                   *)

TransformInit ==
    /\ order \in SystemOrders
    /\ activeBlocks \in
          {<<Position(x, y)>> : x \in 0..(TOTAL_WIDTH - 1), y \in 0..(TOTAL_HEIGHT - 1)}
    /\ normalBlocks = <<>>
    /\ commands = <<>>
    /\ pass = <<>>
    /\ pc = 0
    /\ window \in WindowSizes
    /\ transforms = <<>>
    /\ fall_ticks = 0

\* position_translation, over every entity with a Position.
PositionTranslation ==
    /\ pass = <<>>
    /\ transforms' =
          LET entities == activeBlocks \o normalBlocks
          IN  [i \in DOMAIN entities |-> Translation(entities[i])]
    /\ UNCHANGED <<activeBlocks, normalBlocks, commands, order, pass, pc,
                   window, fall_ticks>>

\* The window is resized.
Resize ==
    /\ pass = <<>>
    /\ window' \in WindowSizes \ {window}
    /\ UNCHANGED <<activeBlocks, normalBlocks, commands, order, pass, pc,
                   transforms, fall_ticks>>

TransformNext == PositionTranslation \/ Resize

TransformSpec == TransformInit /\ [][TransformNext]_vars

----------------------------------------------------------------------------
(* What the properties below speak of.                                     *)

\* This step runs system `sys`.
Stepped(sys) == Current = sys /\ pc' = pc + 1

\* System `sys` is the one that has just run.
Ran(sys) == pc > 0 /\ pass[pc] = sys

\* This step ends a pass and applies its commands.
Flushed == pass # <<>> /\ pc = Len(pass) /\ pass' = <<>>

\* The normal blocks at (x, y).
FrozenAt(x, y) == {i \in DOMAIN normalBlocks : normalBlocks[i] = Position(x, y)}

\* s is an initial part of t.
IsPrefix(s, t) == Len(s) <= Len(t) /\ SubSeq(t, 1, Len(s)) = s

----------------------------------------------------------------------------
(* C1: no two frozen cells have the same position (x, y), in every state   *)
(* reachable by fall ticks, placement checks and control ticks.            *)
C1_NoTwoFrozenAtOnePosition ==
    \A i, j \in DOMAIN normalBlocks : i # j => normalBlocks[i] # normalBlocks[j]

(* C2: in every reachable state the active cell's x is in [0, WIDTH) and   *)
(* its y is in [0, HEIGHT).                                                *)
C2_ActiveInGrid ==
    \A i \in DOMAIN activeBlocks :
        /\ activeBlocks[i].x \in 0..(TOTAL_WIDTH - 1)
        /\ activeBlocks[i].y \in 0..(TOTAL_HEIGHT - 1)

\* A control tick has just run and left the active cell in the corner
\* between the right wall and the floor.
C2_Witness ==
    /\ Ran("control_movement")
    /\ \E i \in DOMAIN activeBlocks :
          activeBlocks[i] = Position(TOTAL_WIDTH - 1, 0)

(* C3: whenever the placement check freezes the active cell, the active    *)
(* cell is at the spawn point (5, HEIGHT-1) immediately afterwards,        *)
(* whatever column it was frozen in.                                       *)
C3_RespawnAtSpawnPoint ==
    [][(Stepped("place_active_blocks") /\ commands' # commands)
          => \A i \in DOMAIN activeBlocks' : activeBlocks'[i] = SpawnPosition]_vars

(* C4: with the active cell at (x, y), y > 0, and at least one frozen cell *)
(* at (x, y-1), the placement check adds exactly one frozen cell, at       *)
(* (x, y), and resets the active cell to the top row, whatever the scan    *)
(* order and however many frozen cells are at (x, y-1).  The check issues  *)
(* the one spawn, and the end of the pass adds that cell to the world.     *)
C4_FreezeOnStack ==
    [][/\ \A i \in DOMAIN activeBlocks :
             LET a == activeBlocks[i]
             IN  (/\ Stepped("place_active_blocks")
                  /\ a.y > 0
                  /\ FrozenAt(a.x, a.y - 1) # {})
                 => /\ commands' = Append(commands, [tag |-> "NormalBlock", pos |-> a])
                    /\ activeBlocks'[i].y = TOTAL_HEIGHT - 1
                    /\ normalBlocks' = normalBlocks
       /\ \A k \in DOMAIN commands :
             (Flushed /\ Len(commands) = 1 /\ commands[k].tag = "NormalBlock"
                 /\ commands[k].pos.y > 0)
                 => normalBlocks' = Append(normalBlocks, commands[k].pos)]_vars

\* The placement check has just frozen the active cell on top of a
\* position that holds two frozen cells.
C4_Witness ==
    /\ Ran("place_active_blocks")
    /\ Len(commands) = 1
    /\ commands[1].tag = "NormalBlock"
    /\ commands[1].pos.y > 0
    /\ Cardinality(FrozenAt(commands[1].pos.x, commands[1].pos.y - 1)) >= 2
    /\ \A i \in DOMAIN activeBlocks : activeBlocks[i].y = TOTAL_HEIGHT - 1

(* C5: with the active cell at (x, 0), the placement check adds exactly    *)
(* one frozen cell, at (x, 0), and resets the active cell to the top row,  *)
(* for every x and every configuration of frozen cells, one with a frozen  *)
(* cell at (x, 0) included.                                                *)
C5_FreezeOnFloor ==
    [][/\ \A i \in DOMAIN activeBlocks :
             LET a == activeBlocks[i]
             IN  (Stepped("place_active_blocks") /\ a.y = 0)
                 => /\ commands' = Append(commands, [tag |-> "NormalBlock", pos |-> a])
                    /\ activeBlocks'[i].y = TOTAL_HEIGHT - 1
                    /\ normalBlocks' = normalBlocks
       /\ \A k \in DOMAIN commands :
             (Flushed /\ Len(commands) = 1 /\ commands[k].tag = "NormalBlock"
                 /\ commands[k].pos.y = 0)
                 => normalBlocks' = Append(normalBlocks, commands[k].pos)]_vars

\* The placement check has just frozen the active cell on the floor, at a
\* position that already holds a frozen cell.
C5_Witness ==
    /\ Ran("place_active_blocks")
    /\ Len(commands) = 1
    /\ commands[1].tag = "NormalBlock"
    /\ commands[1].pos.y = 0
    /\ FrozenAt(commands[1].pos.x, 0) # {}
    /\ \A i \in DOMAIN activeBlocks : activeBlocks[i].y = TOTAL_HEIGHT - 1

(* C6: in every fall tick the placement check runs after the falling       *)
(* logic of that tick: it never reads the active cell's position before    *)
(* falling_movement has updated it.                                        *)
C6_PlacementAfterFalling ==
    [][Stepped("place_active_blocks") => "falling_movement" \in HasRun]_vars

(* C7: a control tick applies only the direction of the highest-priority   *)
(* held key: with Left held it neither increases x nor decreases y, and    *)
(* with Right held without Left it does not decrease y, at every position  *)
(* and for every combination of the other keys.                            *)
C7_HighestPriorityKeyOnly ==
    [][\A keyboard_input \in SUBSET KeyCode :
          ControlMovement(keyboard_input)
          => \A i \in DOMAIN activeBlocks :
                /\ "Left" \in keyboard_input
                      => /\ activeBlocks'[i].x <= activeBlocks[i].x
                         /\ activeBlocks'[i].y >= activeBlocks[i].y
                /\ ("Right" \in keyboard_input /\ "Left" \notin keyboard_input)
                      => activeBlocks'[i].y >= activeBlocks[i].y]_vars

(* C8: the falling logic alone maps the active cell (x, y) to (x, y-1)     *)
(* when y > 0 and leaves it at (x, 0) when y = 0, also when a frozen cell  *)
(* is at (x, y-1); x and the frozen cells are unchanged.                   *)
C8_FallingOnly ==
    [][Stepped("falling_movement")
          => /\ Len(activeBlocks') = Len(activeBlocks)
             /\ \A i \in DOMAIN activeBlocks :
                   LET a == activeBlocks[i]
                   IN  activeBlocks'[i] =
                          Position(a.x, IF a.y > 0 THEN a.y - 1 ELSE 0)
             /\ normalBlocks' = normalBlocks
             /\ commands' = commands]_vars

\* The falling logic has just moved the active cell down into a position
\* that holds a frozen cell.
C8_Witness ==
    /\ Ran("falling_movement")
    /\ \E i \in DOMAIN activeBlocks :
          /\ activeBlocks[i].y >= 1
          /\ FrozenAt(activeBlocks[i].x, activeBlocks[i].y) # {}

(* C9: the collection of frozen cells only grows: no step removes a frozen *)
(* cell or changes its position; the falling logic and the control tick    *)
(* leave the collection (and the pending spawns) unchanged, and one        *)
(* placement check adds at most one frozen cell.                           *)
C9_FrozenOnlyGrows ==
    [][/\ IsPrefix(normalBlocks, normalBlocks')
       /\ Len(normalBlocks') <= Len(normalBlocks) + 1
       /\ (Stepped("falling_movement") \/ Stepped("control_movement"))
             => (normalBlocks' = normalBlocks /\ commands' = commands)
       /\ Stepped("place_active_blocks")
             => /\ normalBlocks' = normalBlocks
                /\ IsPrefix(commands, commands')
                /\ Len(commands') <= Len(commands) + 1]_vars

\* Two placements have been applied, one after the other.
C9_Witness ==
    /\ pass = <<>>
    /\ Len(normalBlocks) >= 2
    /\ commands = <<>>

(* C10: after startup every reachable state has exactly one active cell:   *)
(* the placement check resets the existing one and never creates a second  *)
(* or removes the only one.                                                *)
C10_ExactlyOneActive ==
    pass # <<"spawn_active_block">> => Len(activeBlocks) = 1

\* A placement has been applied and there is still one active cell.
C10_Witness ==
    /\ pass = <<>>
    /\ Len(normalBlocks) >= 1
    /\ Len(activeBlocks) = 1

(* C12: every control tick, at every position and with every combination   *)
(* of held keys, changes at most one coordinate of the active cell, by     *)
(* one: the result is (x, y), (x-1, y), (x+1, y) or (x, y-1); it never     *)
(* moves on both axes, never increases y and never wraps around an edge.   *)
C12_ControlMovesOneCell ==
    [][Stepped("control_movement")
          => /\ Len(activeBlocks') = Len(activeBlocks)
             /\ \A i \in DOMAIN activeBlocks :
                   LET a == activeBlocks[i]
                   IN  /\ activeBlocks'[i] \in
                             {a, Position(a.x - 1, a.y), Position(a.x + 1, a.y),
                              Position(a.x, a.y - 1)}
                       /\ activeBlocks'[i].x \in 0..(TOTAL_WIDTH - 1)
                       /\ activeBlocks'[i].y \in 0..(TOTAL_HEIGHT - 1)]_vars

\* A control tick has just run and left the active cell at the left wall,
\* below the top row.
C12_Witness ==
    /\ Ran("control_movement")
    /\ \E i \in DOMAIN activeBlocks :
          activeBlocks[i].x = 0 /\ activeBlocks[i].y < TOTAL_HEIGHT - 1

(* C14: in every reachable state the active cell's position differs from   *)
(* the position of every frozen cell: no fall tick, control tick or        *)
(* respawn puts the active cell on an occupied cell.                       *)
C14_ActiveNotOnFrozen ==
    \A i \in DOMAIN activeBlocks : FrozenAt(activeBlocks[i].x, activeBlocks[i].y) = {}

(* C16: in every reachable state every frozen cell is supported: its y is  *)
(* 0, or a frozen cell is at the position directly below it.               *)
C16_FrozenSupported ==
    \A i \in DOMAIN normalBlocks :
        \/ normalBlocks[i].y = 0
        \/ FrozenAt(normalBlocks[i].x, normalBlocks[i].y - 1) # {}

\* A cell is frozen above the floor, and another column is in use as well.
C16_Witness ==
    /\ pass = <<>>
    /\ \E i, j \in DOMAIN normalBlocks :
          /\ normalBlocks[i].y >= 1
          /\ normalBlocks[j].x # normalBlocks[i].x

(* C18: with the active cell at (x, y), y > 0, and no frozen cell at       *)
(* (x, y-1), the placement check is a no-op: the active cell's position    *)
(* and the frozen cells (and the pending spawns) are unchanged.            *)
C18_PlacementNoOp ==
    [][\A i \in DOMAIN activeBlocks :
          LET a == activeBlocks[i]
          IN  (/\ Stepped("place_active_blocks")
               /\ a.y > 0
               /\ FrozenAt(a.x, a.y - 1) = {})
              => /\ activeBlocks' = activeBlocks
                 /\ normalBlocks' = normalBlocks
                 /\ commands' = commands]_vars

\* The placement check has just run and left the active cell where it
\* was, above an empty cell, with frozen cells elsewhere.
C18_Witness ==
    /\ Ran("place_active_blocks")
    /\ commands = <<>>
    /\ normalBlocks # <<>>
    /\ \E i \in DOMAIN activeBlocks :
          /\ activeBlocks[i].y \in 1..(TOTAL_HEIGHT - 2)
          /\ FrozenAt(activeBlocks[i].x, activeBlocks[i].y - 1) = {}

(* C11: from startup, with no key ever held, the fall tick in which the    *)
(* active cell reaches y = 0 ends with exactly one frozen cell, at (5, 0), *)
(* and the active cell at (5, HEIGHT-1); no cell is frozen before the      *)
(* active cell has reached y = 0.                                          *)
C11_FirstCellScenario ==
    [][/\ (/\ Flushed
           /\ "falling_movement" \in HasRun
           /\ normalBlocks = <<>>
           /\ \/ commands # <<>>
              \/ \E i \in DOMAIN activeBlocks : activeBlocks[i].y = 0)
          => /\ normalBlocks' = <<Position(5, 0)>>
             /\ activeBlocks' = <<Position(5, TOTAL_HEIGHT - 1)>>
       /\ (normalBlocks = <<>> /\ commands = <<>> /\ commands' # <<>>)
          => \A i \in DOMAIN activeBlocks : activeBlocks[i].y = 0]_vars

(* C13: the position transform maps the cell at (0, 0) to the pixel        *)
(* (-W/2 + W/(2*Gw), -H/2 + H/(2*Gh)) and the cell at the far corner       *)
(* (Gw-1, Gh-1) to (W/2 - W/(2*Gw), H/2 - H/(2*Gh)), on windows W x H that *)
(* are whole multiples of twice the grid extent Gw x Gh.                   *)
C13_TransformCorners ==
    [][PositionTranslation
          => \A i \in DOMAIN transforms' :
                LET cell == (activeBlocks \o normalBlocks)[i]
                    W == window.width \div PixelScale
                    H == window.height \div PixelScale
                IN  /\ cell = Position(0, 0)
                       => /\ transforms'[i].x =
                                PixelScale * ((0 - (W \div 2)) + (W \div (2 * TOTAL_WIDTH)))
                          /\ transforms'[i].y =
                                PixelScale * ((0 - (H \div 2)) + (H \div (2 * TOTAL_HEIGHT)))
                    /\ cell = Position(TOTAL_WIDTH - 1, TOTAL_HEIGHT - 1)
                       => /\ transforms'[i].x =
                                PixelScale * ((W \div 2) - (W \div (2 * TOTAL_WIDTH)))
                          /\ transforms'[i].y =
                                PixelScale * ((H \div 2) - (H \div (2 * TOTAL_HEIGHT)))]_vars

\* The cell at the far corner has been given its place in a window that is
\* wider and higher than the smallest one.
C13_Witness ==
    /\ activeBlocks = <<Position(TOTAL_WIDTH - 1, TOTAL_HEIGHT - 1)>>
    /\ window.width > F32(2 * TOTAL_WIDTH)
    /\ window.height > F32(2 * TOTAL_HEIGHT)
    /\ Len(transforms) = 1
    /\ transforms[1].x = window.width \div 2 - window.width \div (2 * TOTAL_WIDTH)
    /\ transforms[1].y = window.height \div 2 - window.height \div (2 * TOTAL_HEIGHT)

(* C15: the game always makes progress: under fair fall ticks, from every  *)
(* state and whatever keys are held, the active cell is frozen within at   *)
(* most HEIGHT fall ticks, so the number of frozen cells keeps growing,    *)
(* also once a column is filled to the top.                                *)
C15_FreezesWithinHeightTicks ==
    /\ [](fall_ticks <= TOTAL_HEIGHT)
    /\ \A k \in 0..(MaxFrozenFair - 1) :
          (FrozenSinceInit = k) ~> (FrozenSinceInit > k)

\* The spawn column is frozen up to the row below the top row, and one
\* more cell has been frozen since.
C15_Witness ==
    /\ pass = <<>>
    /\ Len(normalBlocks) = TOTAL_HEIGHT
    /\ SubSeq(normalBlocks, 1, TOTAL_HEIGHT - 1) = FilledColumn
    /\ fall_ticks = 0

(* C17: in every reachable state every frozen cell lies inside the grid,   *)
(* x in [0, WIDTH) and y in [0, HEIGHT), however many cells have been      *)
(* placed: none above the top row, none outside the side walls.            *)
C17_FrozenInGrid ==
    \A i \in DOMAIN normalBlocks :
        /\ normalBlocks[i].x \in 0..(TOTAL_WIDTH - 1)
        /\ normalBlocks[i].y \in 0..(TOTAL_HEIGHT - 1)

\* The spawn column is frozen up to the row below the top row, and the
\* next cell has been frozen in that column, in its highest frozen row.
C17_Witness ==
    /\ Len(normalBlocks) = TOTAL_HEIGHT
    /\ SubSeq(normalBlocks, 1, TOTAL_HEIGHT - 1) = FilledColumn
    /\ normalBlocks[TOTAL_HEIGHT] = Position(SpawnPosition.x, TOTAL_HEIGHT - 2)

\* With no key held, play reaches the state the fair play may start in.
FilledColumnReached ==
    /\ pass = <<>>
    /\ normalBlocks = FilledColumn
    /\ activeBlocks =
          <<IF FallsFirst(order) THEN SpawnPosition
            ELSE falling_movement(SpawnPosition)>>

====
